---- MODULE Spec2Model ----
(***************************************************************************)
(* jf-http-request (src/index.js): a wrapper of NodeJS' http.request that  *)
(* normalizes its options, serves responses from a process-wide cache and  *)
(* hands the outcome to a callback, an event emitter or a promise.         *)
(*                                                                         *)
(* JavaScript values are tagged pairs <<type, payload>>; strings are       *)
(* sequences of tokens so that concatenation and splitting are computed;   *)
(* plain objects are sequences of <<key, value>> pairs in insertion order, *)
(* which is the order JSON.stringify writes them in.                       *)
(***************************************************************************)
EXTENDS Integers, Sequences, FiniteSets, TLC

VARIABLES
    cache,      \* index.js:15  the cache table: hash -> [data, time]
    cacheTime,  \* index.js:21  the default time to live
    now,        \* new Date().getTime()
    heap,       \* the mutable objects responses refer to: ref -> content
    disk,       \* the file system: what writeCache wrote, what loadCache reads
    modules,    \* the modules require has loaded: file -> content
    calls,      \* one record per call of jfHttpRequest, in call order
    inserts     \* history: hash -> the last addToCache under it

vars == <<cache, cacheTime, now, heap, disk, modules, calls, inserts>>

-----------------------------------------------------------------------------
(* Bounds of the model.                                                    *)

MaxCalls == 2
MaxTime == 2
MaxCacheCalls == 1
MaxSharedCalls == 2
MaxBodyCalls == 1
MaxFileCalls == 1
MaxHeaderCalls == 1
MaxLifetimeCalls == 2

-----------------------------------------------------------------------------
(* JavaScript values.                                                      *)

Undefined == <<"undefined", <<>>>>
Null == <<"null", <<>>>>
Str(s) == <<"string", s>>
Num(n) == <<"number", n>>
Obj(pairs) == <<"object", pairs>>
Fn(name) == <<"function", name>>
Ref(origin, field) == <<"ref", <<origin, field>>>>
Msg(fields) == <<"message", fields>>
True == <<"boolean", "true">>
False == <<"boolean", "false">>

TypeOf(v) ==
    CASE v[1] = "null" -> "object"
      [] v[1] = "ref" -> "object"
      [] v[1] = "message" -> "object"
      [] OTHER -> v[1]

\* ToBoolean: undefined, null, 0 and "" are falsy.
Truthy(v) ==
    CASE v[1] = "undefined" -> FALSE
      [] v[1] = "null" -> FALSE
      [] v[1] = "number" -> v[2] # 0
      [] v[1] = "string" -> v[2] # <<>>
      [] v[1] = "boolean" -> v = True
      [] OTHER -> TRUE

\* Plain objects: `k in o`, o[k], o[k] = v, delete o[k], Object.assign(o, s).
Has(o, k) == \E i \in 1..Len(o) : o[i][1] = k
Get(o, k) ==
    IF Has(o, k) THEN o[CHOOSE i \in 1..Len(o) : o[i][1] = k][2] ELSE Undefined
Set(o, k, v) ==
    IF Has(o, k)
    THEN [i \in 1..Len(o) |-> IF o[i][1] = k THEN <<k, v>> ELSE o[i]]
    ELSE Append(o, <<k, v>>)
Delete(o, k) == SelectSeq(o, LAMBDA p : p[1] # k)

RECURSIVE Assign(_, _)
Assign(o, s) ==
    IF s = <<>> THEN o ELSE Assign(Set(o, Head(s)[1], Head(s)[2]), Tail(s))

\* JSON.stringify of a plain object: the pairs in insertion order, without
\* the properties whose value is undefined or a function.
JSONstringify(o) ==
    SelectSeq(o, LAMBDA p : p[2][1] \notin {"undefined", "function"})

\* F of the value of e: e is evaluated once, however often F uses it.
Bind(e, F(_)) == CHOOSE r \in {F(v) : v \in {e}} : TRUE

\* The index of the first token t of s, or 0.
IndexOf(s, t) ==
    IF \E i \in 1..Len(s) : s[i] = t
    THEN CHOOSE i \in 1..Len(s) : s[i] = t /\ \A j \in 1..(i - 1) : s[j] # t
    ELSE 0

-----------------------------------------------------------------------------
(* url.parse (NodeJS): the Url object of a URL string, every field of it.  *)
(* A URL is <<protocol, "//", host, pathname>> or a bare <<pathname>>,     *)
(* followed or not by <<"?", query>>.                                      *)

urlParse(u) ==
    LET abs == Len(u) >= 3 /\ u[2] = "//"
        rest == IF abs THEN SubSeq(u, 4, Len(u)) ELSE u
        q == IndexOf(rest, "?")
        pathname == IF q = 0 THEN rest ELSE SubSeq(rest, 1, q - 1)
        search == IF q = 0 THEN Null ELSE Str(SubSeq(rest, q, Len(rest)))
        query == IF q = 0 THEN Null ELSE Str(SubSeq(rest, q + 1, Len(rest)))
        host == IF abs THEN Str(<<u[3]>>) ELSE Null
    IN  << <<"protocol", IF abs THEN Str(<<u[1]>>) ELSE Null>>,
           <<"slashes", IF abs THEN True ELSE Null>>,
           <<"auth", Null>>,
           <<"host", host>>,
           <<"port", Null>>,
           <<"hostname", host>>,
           <<"hash", Null>>,
           <<"search", search>>,
           <<"query", query>>,
           <<"pathname", Str(pathname)>>,
           <<"path", Str(rest)>>,
           <<"href", Str(u)>> >>

-----------------------------------------------------------------------------
(* Option normalization.                                                   *)

\* checkUrl without the aliasing of host: host is removed and hostname left
\* as it was.
checkUrl_NoAlias(options) ==
    LET _url == Get(options, "url")
        byPathname == Truthy(Get(options, "pathname"))
        parsed == urlParse(_url[2])
        withPath ==
            IF byPathname
            THEN Set(parsed, "path", Get(options, "pathname"))
            ELSE IF Truthy(Get(parsed, "query"))
                 THEN Set(parsed, "path",
                          Str(Get(parsed, "path")[2] \o <<"?">> \o Get(parsed, "query")[2]))
                 ELSE parsed
        resolved ==
            IF TypeOf(_url) = "string"
            THEN Delete(Assign(IF byPathname THEN Delete(options, "pathname") ELSE options,
                               withPath),
                        "url")
            ELSE options
        aliased == IF Truthy(Get(resolved, "host")) THEN Delete(resolved, "host")
                   ELSE resolved
    IN  [threw |-> ~Truthy(Get(aliased, "hostname")), options |-> aliased]

\* checkUrl: the options after URL resolution and host aliasing, and whether
\* it threw TypeError('Wrong hostname').
checkUrl(options) ==
    LET _url == Get(options, "url")
        byPathname == Truthy(Get(options, "pathname"))
        parsed == urlParse(_url[2])
        withPath ==
            IF byPathname
            THEN Set(parsed, "path", Get(options, "pathname"))
            ELSE IF Truthy(Get(parsed, "query"))
                 THEN Set(parsed, "path",
                          Str(Get(parsed, "path")[2] \o <<"?">> \o Get(parsed, "query")[2]))
                 ELSE parsed
        resolved ==
            IF TypeOf(_url) = "string"
            THEN Delete(Assign(IF byPathname THEN Delete(options, "pathname") ELSE options,
                               withPath),
                        "url")
            ELSE options
        aliased ==
            IF Truthy(Get(resolved, "host"))
            THEN Delete(IF ~Truthy(Get(resolved, "hostname"))
                        THEN Set(resolved, "hostname", Get(resolved, "host"))
                        ELSE resolved,
                        "host")
            ELSE resolved
    IN  [threw |-> ~Truthy(Get(aliased, "hostname")), options |-> aliased]

\* jf-http-headers: a header table whose names are normalized.
HeaderName(k) ==
    CASE k = "content-type" -> "Content-Type"
      [] k = "accept" -> "Accept"
      [] OTHER -> k

RECURSIVE NormalizeHeaders(_)
NormalizeHeaders(h) ==
    IF h = <<>> THEN <<>>
    ELSE Set(NormalizeHeaders(SubSeq(h, 1, Len(h) - 1)),
             HeaderName(h[Len(h)][1]), h[Len(h)][2])

jfHttpHeaders(v) == IF v[1] = "object" THEN NormalizeHeaders(v[2]) ELSE <<>>

TextHtml == Str(<<"text/html", ";", " charset=utf-8">>)
TextPlain == Str(<<"text/plain", ";", " charset=utf-8">>)
ApplicationJson == Str(<<"application/json", ";", " charset=utf-8">>)

\* s.split(';').shift()
BeforeSemicolon(s) ==
    IF IndexOf(s, ";") = 0 THEN s ELSE SubSeq(s, 1, IndexOf(s, ";") - 1)

\* checkHeaders: the options with Content-Type and Accept defaulted.
checkHeaders(options) ==
    IF Has(options, "headers")
    THEN LET _headers == jfHttpHeaders(Get(options, "headers"))
             _body == Get(options, "body")
             typed ==
                 IF ~Truthy(Get(_headers, "Content-Type")) /\ Has(options, "body")
                 THEN CASE TypeOf(_body) = "string" ->
                               Set(_headers, "Content-Type",
                                   IF _body[2] # <<>> /\ _body[2][1] = "<"
                                   THEN TextHtml ELSE TextPlain)
                        [] TypeOf(_body) = "object" ->
                               Set(_headers, "Content-Type", ApplicationJson)
                        [] OTHER -> _headers
                 ELSE _headers
             _contentType == Get(typed, "Content-Type")
             accepted ==
                 IF ~Truthy(Get(typed, "Accept")) /\ Truthy(_contentType)
                 THEN Set(typed, "Accept", Str(BeforeSemicolon(_contentType[2])))
                 ELSE typed
         IN  Set(options, "headers", Obj(accepted))
    ELSE options

-----------------------------------------------------------------------------
(* Classification and mode selection.                                      *)

\* The field of a message (an http.IncomingMessage), undefined when unset.
Field(response, name) ==
    IF name \in DOMAIN response[2] THEN response[2][name] ELSE Undefined

\* isOk with the upper bound of the 2XX codes off by one.
isOk_Through300(response) ==
    LET _code == IF Truthy(response) /\ Truthy(Field(response, "statusCode"))
                 THEN Field(response, "statusCode")[2]
                 ELSE 0
    IN  (_code >= 200 /\ _code <= 300) \/ _code = 304

\* isOk: status codes are numbers or undefined.
isOk(response) ==
    LET _code == IF Truthy(response) /\ Truthy(Field(response, "statusCode"))
                 THEN Field(response, "statusCode")[2]
                 ELSE 0
    IN  (_code >= 200 /\ _code < 300) \/ _code = 304

\* The prototype of each function a caller passes as requestType: whether it
\* is an object, and whether it has a catch and a then method.
Prototype(name) ==
    CASE name = "Promise" -> [object |-> TRUE, catch |-> TRUE, then |-> TRUE]
      [] name = "Thenable" -> [object |-> TRUE, catch |-> FALSE, then |-> TRUE]
      [] name = "function" -> [object |-> TRUE, catch |-> FALSE, then |-> FALSE]
      [] OTHER -> [object |-> FALSE, catch |-> FALSE, then |-> FALSE]

isPromise(Class) ==
    /\ TypeOf(Class) = "function"
    /\ Prototype(Class[2]).object
    /\ Prototype(Class[2]).catch
    /\ Prototype(Class[2]).then

-----------------------------------------------------------------------------
(* The cache.                                                              *)

properties ==
    <<"body", "headers", "httpVersion", "httpVersionMajor", "httpVersionMinor",
      "method", "rawHeaders", "rawTrailers", "statusCode", "statusMessage",
      "trailers", "url">>

Range(s) == {s[i] : i \in 1..Len(s)}

\* The fields of a message that are no properties of the snapshot.
OtherFields == {"socket", "complete"}

Put(f, k, v) == [x \in (DOMAIN f) \cup {k} |-> IF x = k THEN v ELSE f[x]]
Restrict(f, S) == [x \in S |-> f[x]]
Empty == [x \in {} |-> x]

\* buildHash: SHA-256 of the content, taken to be free of collisions.
buildHash(content) == <<"sha256", content>>

\* purgeCache, were it to remove the entries that expire now as well.
purgeCache_Inclusive(c, _current) ==
    Restrict(c, {key \in DOMAIN c : ~(c[key].time <= _current)})

purgeCache(c, _current) ==
    Restrict(c, {key \in DOMAIN c : ~(c[key].time < _current)})

addToCache(c, hash, time, response, _current) ==
    LET _serialized == [name \in Range(properties) |-> Field(response, name)]
    IN  Put(purgeCache(c, _current), hash,
            [data |-> _serialized, time |-> _current + time])

\* new HttpMessage(): a message of no connection, nothing received.
HttpMessage ==
    Msg([name \in Range(properties) \cup OtherFields |->
            IF name = "complete" THEN False ELSE Undefined])

\* fromCache, were a hit to renew the entry it serves.
fromCache_Renewing(c, hash, _current) ==
    LET purged == purgeCache(c, _current)
    IN  [cache |-> IF hash \in DOMAIN purged
                   THEN [purged EXCEPT ![hash].time = _current + 1]
                   ELSE purged,
         response |->
            IF hash \in DOMAIN purged
            THEN Msg([name \in DOMAIN HttpMessage[2] |->
                        IF name \in Range(properties)
                        THEN (IF name \in DOMAIN purged[hash].data
                              THEN purged[hash].data[name] ELSE Undefined)
                        ELSE HttpMessage[2][name]])
            ELSE Undefined]

\* fromCache without the purge: the response of an entry, expired or not.
fromCache_NoPurge(c, hash, _current) ==
    [cache |-> c,
     response |->
        IF hash \in DOMAIN c
        THEN Msg([name \in DOMAIN HttpMessage[2] |->
                    IF name \in Range(properties)
                    THEN (IF name \in DOMAIN c[hash].data
                          THEN c[hash].data[name] ELSE Undefined)
                    ELSE HttpMessage[2][name]])
        ELSE Undefined]

\* fromCache: the cache after the purge, and the response or undefined.
fromCache(c, hash, _current) ==
    LET purged == purgeCache(c, _current)
    IN  [cache |-> purged,
         response |->
            IF hash \in DOMAIN purged
            THEN Msg([name \in DOMAIN HttpMessage[2] |->
                        IF name \in Range(properties)
                        THEN (IF name \in DOMAIN purged[hash].data
                              THEN purged[hash].data[name] ELSE Undefined)
                        ELSE HttpMessage[2][name]])
            ELSE Undefined]

-----------------------------------------------------------------------------
(* The body of a response.                                                 *)

\* Buffer.concat(_chunks): the chunks are sequences of tokens.
RECURSIVE Concat(_)
Concat(chunks) == IF chunks = <<>> THEN <<>> ELSE Head(chunks) \o Concat(Tail(chunks))

\* (/[+/]json(;|$)/).test(_contentType); the test of undefined is false.
IsJsonType(_contentType) ==
    /\ TypeOf(_contentType) = "string"
    /\ \E i \in 1..(Len(_contentType[2]) - 1) :
          /\ _contentType[2][i] \in {"+", "/"}
          /\ _contentType[2][i + 1] = "json"
          /\ (i + 1 = Len(_contentType[2]) \/ _contentType[2][i + 2] = ";")

\* JSON.parse of a text: an object is "{", its members, "}"; anything else
\* throws.
JSONparse(text) ==
    IF /\ Len(text) >= 2
       /\ text[1] = "{"
       /\ text[Len(text)] = "}"
       /\ \A i \in 2..(Len(text) - 1) : text[i] \notin {"{", "}"}
    THEN [threw |-> FALSE, value |-> <<"object", SubSeq(text, 2, Len(text) - 1)>>]
    ELSE [threw |-> TRUE, value |-> <<"object", <<>>>>]

\* The body, were a failure of JSON.parse to leave the buffer as it is.
DecodeBody_KeepBuffer(_chunks, _contentType) ==
    IF IsJsonType(_contentType) /\ ~JSONparse(Concat(_chunks)).threw
    THEN JSONparse(Concat(_chunks)).value
    ELSE <<"buffer", Concat(_chunks)>>

\* The body the 'end' listener attaches to the response.
DecodeBody(_chunks, _contentType) ==
    IF IsJsonType(_contentType)
    THEN (IF JSONparse(Concat(_chunks)).threw
          THEN <<"object", <<>>>>
          ELSE JSONparse(Concat(_chunks)).value)
    ELSE <<"buffer", Concat(_chunks)>>

\* The message http.request hands to the response callback of call id, once
\* its body is attached: the objects it refers to live in the heap.
Origin(id) == <<"call", id>>

IncomingMessage(id, server, complete) ==
    Msg([name \in Range(properties) \cup OtherFields |->
          CASE name = "body" -> Ref(Origin(id), "body")
            [] name = "headers" -> Ref(Origin(id), "headers")
            [] name = "rawHeaders" -> Ref(Origin(id), "rawHeaders")
            [] name = "rawTrailers" -> Ref(Origin(id), "rawTrailers")
            [] name = "trailers" -> Ref(Origin(id), "trailers")
            [] name = "socket" -> Ref(Origin(id), "socket")
            [] name = "statusCode" -> Num(server.statusCode)
            [] name = "statusMessage" -> Str(<<"status">>)
            [] name = "httpVersion" -> Str(<<"1.1">>)
            [] name = "httpVersionMajor" -> Num(1)
            [] name = "httpVersionMinor" -> Num(1)
            [] name = "method" -> Null
            [] name = "url" -> Str(<<>>)
            [] name = "complete" -> (IF complete THEN True ELSE False)])

\* The value of a snapshot field with the object it refers to read from the
\* heap h.
Deref(h, v) == IF v[1] = "ref" /\ v[2] \in DOMAIN h THEN h[v[2]] ELSE v

Snapshot(h, response) ==
    [name \in Range(properties) |-> Deref(h, Field(response, name))]

-----------------------------------------------------------------------------
(* Delivery adapters: what the continuations of doRequest do in each mode. *)

Kind(response) == IF isOk(response) THEN "request-ok" ELSE "request-fail"

\* typeCallback: cb(response, kind) and cb(error, 'request-error').
typeCallback(c, cont, payload) ==
    [cont |-> cont,
     kind |-> IF cont = "ok" THEN Kind(payload) ELSE "request-error",
     payload |-> payload,
     heard |-> TRUE]

\* typeEvents: _events.emit(kind, payload); a listener attached once the
\* emitter is returned hears what is emitted after the return.
typeEvents(c, cont, payload) ==
    [cont |-> cont,
     kind |-> IF cont = "ok" THEN Kind(payload) ELSE "request-error",
     payload |-> payload,
     heard |-> c.returned]

\* typePromise: resolve(response) and reject(error); a promise keeps its
\* first settlement and ignores the later ones.
typePromise(c, cont, payload) ==
    [cont |-> cont,
     kind |-> IF cont = "ok" THEN "resolve" ELSE "reject",
     payload |-> payload,
     heard |-> c.log = <<>>]

\* The call after its continuation cont ("ok", "error") ran with payload;
\* whole: the body of the payload is the whole body the server sent.
Continue(c, cont, payload, whole) ==
    LET entry == CASE c.mode = "callback" -> typeCallback(c, cont, payload)
                   [] c.mode = "promise" -> typePromise(c, cont, payload)
                   [] OTHER -> typeEvents(c, cont, payload)
    IN  [c EXCEPT !.log = Append(@, entry @@ [whole |-> whole])]

-----------------------------------------------------------------------------
(* One call of jfHttpRequest.                                              *)

NoServer == [statusCode |-> 0, contentType |-> Undefined, body |-> <<>>]
NoInsert == [known |-> FALSE, at |-> 0, ttl |-> 0, data |-> Empty]
NoLookup ==
    [done |-> FALSE, at |-> 0, response |-> Undefined, found |-> Empty,
     time |-> 0, inserted |-> NoInsert]

\* input: the argument; threw: the message of the exception the call threw;
\* returned, result: whether and what it returned; options, ttl, hash: the
\* normalized options, _cacheTime and _hash of doRequest; lookup: what
\* fromCache did; net: the state of the network request; opened: the network
\* requests opened; sent: _request.end() was reached; server: the response
\* being received; _chunks: the chunks received; log: what the caller's
\* callback, emitter or promise was handed, in order; timedOut: the socket
\* emitted 'timeout'; failure: how the transport failed, if it did; hit: a
\* lookup of the hash of the call, made by the ok continuation of its
\* response as it ran, would have found the response.
NewCall(input) ==
    [input |-> input, threw |-> "", mode |-> "none", returned |-> FALSE,
     result |-> "none", options |-> <<>>, ttl |-> Undefined, hash |-> Undefined,
     lookup |-> NoLookup, net |-> "none", opened |-> 0, sent |-> FALSE,
     server |-> NoServer, _chunks |-> <<>>, log |-> <<>>, timedOut |-> FALSE,
     failure |-> "", hit |-> FALSE]

\* The mode jfHttpRequest dispatches a requestType to.
Mode(_type) ==
    IF TypeOf(_type) = "function"
    THEN (IF isPromise(_type) THEN "promise" ELSE "callback")
    ELSE "events"

\* What jfHttpRequest returns in each mode.
Result(mode) ==
    CASE mode = "promise" -> "promise"
      [] mode = "events" -> "emitter"
      [] OTHER -> "undefined"

\* The last insert under hash, if no load replaced it since.
LastInsert(hash) ==
    IF hash \in DOMAIN inserts THEN inserts[hash] ELSE NoInsert

\* doRequest with the default TTL whatever the options say.
doRequest_DefaultTTL(c) ==
    LET options == c.options
        _cacheTime == cacheTime
        _hash == IF Truthy(_cacheTime) THEN buildHash(JSONstringify(options))
                 ELSE Undefined
    IN  Bind(IF Truthy(_cacheTime) THEN fromCache(cache, _hash, now)
             ELSE [cache |-> cache, response |-> Undefined],
             LAMBDA looked :
                LET _response == looked.response
                    c1 == [c EXCEPT
                             !.ttl = _cacheTime, !.hash = _hash,
                             !.lookup =
                                IF Truthy(_cacheTime)
                                THEN [done |-> TRUE, at |-> now,
                                      response |-> _response,
                                      found |-> IF Truthy(_response)
                                                THEN Snapshot(heap, _response)
                                                ELSE Empty,
                                      time |-> IF Truthy(_response)
                                               THEN looked.cache[_hash].time ELSE 0,
                                      inserted |-> LastInsert(_hash)]
                                ELSE NoLookup]
                    writeThrows == /\ Has(options, "body")
                                   /\ TypeOf(Get(options, "body")) # "string"
                IN  [cache |-> looked.cache,
                     threw |-> ~Truthy(_response) /\ writeThrows,
                     call |-> IF Truthy(_response)
                              THEN Continue(c1, "ok", _response, TRUE)
                              ELSE [c1 EXCEPT !.net = "open", !.opened = @ + 1,
                                              !.sent = ~writeThrows]])

\* doRequest up to its return: the cache is consulted and either the ok
\* continuation runs with the cached response or a network request is opened
\* and, if the options have a body, written to. _request.write throws a
\* TypeError for a body that is no string (nor a Buffer).
doRequest(c) ==
    LET options == c.options
        _cacheTime == IF Has(options, "cacheTime") THEN Get(options, "cacheTime")
                      ELSE cacheTime
        _hash == IF Truthy(_cacheTime) THEN buildHash(JSONstringify(options))
                 ELSE Undefined
    IN  Bind(IF Truthy(_cacheTime) THEN fromCache(cache, _hash, now)
             ELSE [cache |-> cache, response |-> Undefined],
             LAMBDA looked :
                LET _response == looked.response
                    c1 == [c EXCEPT
                             !.ttl = _cacheTime, !.hash = _hash,
                             !.lookup =
                                IF Truthy(_cacheTime)
                                THEN [done |-> TRUE, at |-> now,
                                      response |-> _response,
                                      found |-> IF Truthy(_response)
                                                THEN Snapshot(heap, _response)
                                                ELSE Empty,
                                      time |-> IF Truthy(_response)
                                               THEN looked.cache[_hash].time ELSE 0,
                                      inserted |-> LastInsert(_hash)]
                                ELSE NoLookup]
                    writeThrows == /\ Has(options, "body")
                                   /\ TypeOf(Get(options, "body")) # "string"
                IN  [cache |-> looked.cache,
                     threw |-> ~Truthy(_response) /\ writeThrows,
                     call |-> IF Truthy(_response)
                              THEN Continue(c1, "ok", _response, TRUE)
                              ELSE [c1 EXCEPT !.net = "open", !.opened = @ + 1,
                                              !.sent = ~writeThrows]])

\* The options jfHttpRequest works on: a string is the url of new options.
Options(input) ==
    IF TypeOf(input) = "string" THEN << <<"url", input>> >>
    ELSE IF input[1] = "object" THEN input[2] ELSE <<>>

\* jfHttpRequest, were it to leave requestType in the options.
Dispatch_KeepsType(c, headed) ==
    Bind(doRequest([c EXCEPT !.mode = Mode(Get(headed, "requestType")),
                             !.options = headed]),
         LAMBDA done :
            IF done.threw /\ done.call.mode # "promise"
            THEN [cache |-> done.cache,
                  call |-> [done.call EXCEPT !.threw = "Invalid body"]]
            ELSE [cache |-> done.cache,
                  call |-> [(IF done.threw
                             THEN Continue(done.call, "throw",
                                           <<"error", "ERR_INVALID_ARG_TYPE">>, TRUE)
                             ELSE done.call)
                            EXCEPT !.returned = TRUE,
                                   !.result = Result(done.call.mode)]])

\* jfHttpRequest once its options are checked: requestType is taken out of
\* them and the request is made in the mode it selects. In promise mode an
\* exception of doRequest is thrown in the executor of the promise, which
\* rejects the promise with it.
Dispatch(c, headed) ==
    Bind(doRequest([c EXCEPT !.mode = Mode(Get(headed, "requestType")),
                             !.options = Delete(headed, "requestType")]),
         LAMBDA done :
            IF done.threw /\ done.call.mode # "promise"
            THEN [cache |-> done.cache,
                  call |-> [done.call EXCEPT !.threw = "Invalid body"]]
            ELSE [cache |-> done.cache,
                  call |-> [(IF done.threw
                             THEN Continue(done.call, "throw",
                                           <<"error", "ERR_INVALID_ARG_TYPE">>, TRUE)
                             ELSE done.call)
                            EXCEPT !.returned = TRUE,
                                   !.result = Result(done.call.mode)]])

\* jfHttpRequest(input): the whole call, up to its return or its exception.
jfHttpRequest(input) ==
    IF ~Truthy(input)
    THEN [cache |-> cache, call |-> [NewCall(input) EXCEPT !.threw = "Wrong options"]]
    ELSE Bind(checkUrl(Options(input)),
              LAMBDA url :
                 IF url.threw
                 THEN [cache |-> cache,
                       call |-> [NewCall(input) EXCEPT !.threw = "Wrong hostname"]]
                 ELSE Bind(checkHeaders(url.options),
                           LAMBDA headed : Dispatch(NewCall(input), headed)))

Request(input, maxCalls) ==
    /\ Len(calls) < maxCalls
    /\ \E made \in {jfHttpRequest(input)} :
          /\ calls' = Append(calls, made.call)
          /\ cache' = made.cache
    /\ UNCHANGED <<cacheTime, now, heap, disk, modules, inserts>>

-----------------------------------------------------------------------------
(* The transport: the events http.request emits for the request of call i. *)
(* doRequest listens to 'error' on the request and to 'data' and 'end' on  *)
(* the response, and to nothing else.                                      *)

Replace(i, c) == calls' = [calls EXCEPT ![i] = c]

\* 'error' on the request before any response: the connection is refused,
\* the name is not resolved, the connection times out or is reset.
RequestError(i, code) ==
    /\ calls[i].net = "open"
    /\ Replace(i, [Continue(calls[i], "error", <<"error", code>>, TRUE)
                   EXCEPT !.net = "closed", !.failure = code])
    /\ UNCHANGED <<cache, cacheTime, now, heap, disk, modules, inserts>>

\* 'timeout' on the request: the socket was idle for options.timeout. No
\* listener is attached to it, and the request goes on.
Timeout(i) ==
    /\ calls[i].net \in {"open", "streaming"}
    /\ Truthy(Get(calls[i].options, "timeout"))
    /\ ~calls[i].timedOut
    /\ Replace(i, [calls[i] EXCEPT !.timedOut = TRUE, !.failure = "timeout"])
    /\ UNCHANGED <<cache, cacheTime, now, heap, disk, modules, inserts>>

\* The response callback: the status line and the headers of server have
\* arrived, the listeners of 'data' and 'end' are attached.
Response(i, server) ==
    /\ calls[i].net = "open"
    /\ calls[i].sent
    /\ Replace(i, [calls[i] EXCEPT !.net = "streaming", !.server = server,
                                   !._chunks = <<>>])
    /\ UNCHANGED <<cache, cacheTime, now, heap, disk, modules, inserts>>

\* 'data': _chunks.push(chunk).
Data(i) ==
    /\ calls[i].net = "streaming"
    /\ Len(calls[i]._chunks) < Len(calls[i].server.body)
    /\ Replace(i, [calls[i] EXCEPT
                      !._chunks = Append(@, calls[i].server.body[Len(@) + 1])])
    /\ UNCHANGED <<cache, cacheTime, now, heap, disk, modules, inserts>>

\* The listener of 'end', were it to run ok before it caches the response.
OnEnd_DeliversFirst(i) ==
    LET c == calls[i]
        whole == c._chunks = c.server.body
        response == IncomingMessage(i, c.server, whole)
        _body == DecodeBody(c._chunks, c.server.contentType)
        heaped == Put(Put(heap, Ref(Origin(i), "body")[2], _body),
                      Ref(Origin(i), "headers")[2], <<"headers", c.server.contentType>>)
    IN  /\ heap' = heaped
        /\ Replace(i, [Continue(c, "ok", response, whole) EXCEPT
                          !.net = "ended",
                          !.hit = /\ Truthy(c.hash)
                                  /\ Truthy(fromCache(cache, c.hash, now).response)])
        /\ cache' = IF Truthy(c.hash)
                    THEN addToCache(cache, c.hash, c.ttl[2], response, now)
                    ELSE cache
        /\ inserts' = IF Truthy(c.hash)
                      THEN Put(inserts, c.hash,
                               [known |-> TRUE, at |-> now, ttl |-> c.ttl[2],
                                data |-> Snapshot(heaped, response)])
                      ELSE inserts
        /\ UNCHANGED <<cacheTime, now, disk, modules>>

\* The listener of 'end', were it to cache with the default TTL of the
\* moment.
OnEnd_CurrentDefault(i) ==
    LET c == calls[i]
        whole == c._chunks = c.server.body
        response == IncomingMessage(i, c.server, whole)
        _body == DecodeBody(c._chunks, c.server.contentType)
        heaped == Put(Put(heap, Ref(Origin(i), "body")[2], _body),
                      Ref(Origin(i), "headers")[2], <<"headers", c.server.contentType>>)
        _cacheTime == IF Has(c.options, "cacheTime") THEN Get(c.options, "cacheTime")
                      ELSE cacheTime
    IN  /\ heap' = heaped
        /\ \E cached \in {IF Truthy(c.hash)
                          THEN addToCache(cache, c.hash, _cacheTime[2], response, now)
                          ELSE cache} :
              /\ cache' = cached
              /\ Replace(i, [Continue(c, "ok", response, whole) EXCEPT
                                !.net = "ended",
                                !.hit = /\ Truthy(c.hash)
                                        /\ Truthy(fromCache(cached, c.hash, now).response)])
        /\ inserts' = IF Truthy(c.hash)
                      THEN Put(inserts, c.hash,
                               [known |-> TRUE, at |-> now, ttl |-> c.ttl[2],
                                data |-> Snapshot(heaped, response)])
                      ELSE inserts
        /\ UNCHANGED <<cacheTime, now, disk, modules>>

\* The listener of 'end': the body is decoded and attached, the response is
\* cached if a hash was computed, and then the ok continuation runs.
OnEnd(i) ==
    LET c == calls[i]
        whole == c._chunks = c.server.body
        response == IncomingMessage(i, c.server, whole)
        _body == DecodeBody(c._chunks, c.server.contentType)
        heaped == Put(Put(heap, Ref(Origin(i), "body")[2], _body),
                      Ref(Origin(i), "headers")[2], <<"headers", c.server.contentType>>)
    IN  /\ heap' = heaped
        /\ \E cached \in {IF Truthy(c.hash)
                          THEN addToCache(cache, c.hash, c.ttl[2], response, now)
                          ELSE cache} :
              /\ cache' = cached
              /\ Replace(i, [Continue(c, "ok", response, whole) EXCEPT
                                !.net = "ended",
                                !.hit = /\ Truthy(c.hash)
                                        /\ Truthy(fromCache(cached, c.hash, now).response)])
        /\ inserts' = IF Truthy(c.hash)
                      THEN Put(inserts, c.hash,
                               [known |-> TRUE, at |-> now, ttl |-> c.ttl[2],
                                data |-> Snapshot(heaped, response)])
                      ELSE inserts
        /\ UNCHANGED <<cacheTime, now, disk, modules>>

\* 'end' on a response whose body has arrived whole.
End(i) ==
    /\ calls[i].net = "streaming"
    /\ calls[i]._chunks = calls[i].server.body
    /\ OnEnd(i)

\* The socket fails after the response has started (ECONNRESET): 'error' is
\* emitted on the request and 'aborted' on the response. Whether 'end' then
\* follows on the response depends on the version of NodeJS.
ResponseReset(i, endFollows) ==
    /\ calls[i].net = "streaming"
    /\ Replace(i, [Continue(calls[i], "error", <<"error", "ECONNRESET">>, TRUE)
                   EXCEPT !.net = IF endFollows THEN "aborting" ELSE "closed",
                          !.failure = "ECONNRESET"])
    /\ UNCHANGED <<cache, cacheTime, now, heap, disk, modules, inserts>>

\* The server closes the connection before the body is whole: 'aborted' on
\* the response and no 'error' on the request. Whether 'end' then follows on
\* the response depends on the version of NodeJS.
ResponseClose(i, endFollows) ==
    /\ calls[i].net = "streaming"
    /\ calls[i]._chunks # calls[i].server.body
    /\ Replace(i, [calls[i] EXCEPT !.net = IF endFollows THEN "aborting" ELSE "closed",
                                   !.failure = "aborted"])
    /\ UNCHANGED <<cache, cacheTime, now, heap, disk, modules, inserts>>

\* 'end' on an aborted response: the listener runs on the chunks received.
EndAborted(i) ==
    /\ calls[i].net = "aborting"
    /\ OnEnd(i)

-----------------------------------------------------------------------------
(* The caller and the clock.                                               *)

Tampered == <<"object", <<"tampered">>>>

\* The caller changes the body or the headers of a response it was handed.
CallerMutates(i, field) ==
    /\ \E k \in 1..Len(calls[i].log) :
          /\ calls[i].log[k].cont = "ok"
          /\ calls[i].log[k].heard
          /\ Field(calls[i].log[k].payload, field)[1] = "ref"
          /\ Field(calls[i].log[k].payload, field)[2] \in DOMAIN heap
          /\ heap[Field(calls[i].log[k].payload, field)[2]] # Tampered
          /\ heap' = [heap EXCEPT ![Field(calls[i].log[k].payload, field)[2]] = Tampered]
    /\ UNCHANGED <<cache, cacheTime, now, disk, modules, calls, inserts>>

Tick(maxTime) ==
    /\ now < maxTime
    /\ now' = now + 1
    /\ UNCHANGED <<cache, cacheTime, heap, disk, modules, calls, inserts>>

-----------------------------------------------------------------------------
(* Cache management.                                                       *)

setCacheTime(time) ==
    /\ cacheTime' = time
    /\ UNCHANGED <<cache, now, heap, disk, modules, calls, inserts>>

RECURSIVE SetToSeq(_)
SetToSeq(S) ==
    IF S = {} THEN <<>>
    ELSE LET x == CHOOSE y \in S : TRUE IN <<x>> \o SetToSeq(S \ {x})

\* JSON.stringify of a value: a Buffer becomes an object of type "Buffer".
ToJSON(v) == IF v[1] = "buffer" THEN <<"object", <<"type", "Buffer", "data">> \o v[2]>> ELSE v

\* JSON.stringify(cache): the entries with the objects they refer to, without
\* the properties that are undefined.
Stringify(c, h) ==
    LET keys == SetToSeq(DOMAIN c)
    IN  [n \in 1..Len(keys) |->
            <<keys[n],
              [data |-> [name \in {m \in DOMAIN c[keys[n]].data :
                                      c[keys[n]].data[m] # Undefined} |->
                            ToJSON(Deref(h, c[keys[n]].data[name]))],
               time |-> c[keys[n]].time]>>]

writeCache(file) ==
    /\ disk' = Put(disk, file, Stringify(cache, heap))
    /\ UNCHANGED <<cache, cacheTime, now, heap, modules, calls, inserts>>

\* The objects require(file) makes of the n-th entry of a file.
Mutable == {"body", "headers"}

Parsed(entry, file, n) ==
    [data |-> [name \in DOMAIN entry.data |->
                  IF name \in Mutable THEN Ref(<<file, n>>, name)
                  ELSE entry.data[name]],
     time |-> entry.time]

RECURSIVE AssignEntries(_, _, _, _)
AssignEntries(c, content, file, n) ==
    IF n > Len(content) THEN c
    ELSE AssignEntries(Put(c, content[n][1], Parsed(content[n][2], file, n)),
                       content, file, n + 1)

RECURSIVE AssignObjects(_, _, _, _)
AssignObjects(h, content, file, n) ==
    IF n > Len(content) THEN h
    ELSE AssignObjects(
            [r \in (DOMAIN h) \cup {<<<<file, n>>, name>> :
                                       name \in Mutable \cap DOMAIN content[n][2].data} |->
                IF r[1] = <<file, n>> THEN content[n][2].data[r[2]] ELSE h[r]],
            content, file, n + 1)

\* loadCache: Object.assign(cache, require(file)) if the file exists.
\* require reads a file once and returns the same objects ever after.
loadCache(file) ==
    /\ IF file \in DOMAIN disk
       THEN LET content == IF file \in DOMAIN modules THEN modules[file] ELSE disk[file]
            IN  /\ cache' = AssignEntries(cache, content, file, 1)
                /\ heap' = IF file \in DOMAIN modules THEN heap
                           ELSE AssignObjects(heap, content, file, 1)
                /\ modules' = Put(modules, file, content)
                /\ inserts' = Restrict(inserts,
                                 (DOMAIN inserts) \ {content[n][1] : n \in 1..Len(content)})
       ELSE UNCHANGED <<cache, heap, modules, inserts>>
    /\ UNCHANGED <<cacheTime, now, disk, calls>>

-----------------------------------------------------------------------------
(* The callers, the servers and the files of the model.                    *)

UrlA == <<"http:", "//", "a", "/p">>
UrlB == <<"https:", "//", "b", "/p", "?", "x=1">>
UrlRelative == <<"/p">>

JsonType == Str(<<"application", "/", "json", ";", " charset=utf-8">>)
HtmlType == Str(<<"text", "/", "html">>)

Found == [statusCode |-> 200, contentType |-> JsonType, body |-> << <<"{", "a:1">>, <<"}">> >>]
NotFound == [statusCode |-> 404, contentType |-> HtmlType, body |-> << <<"<p>">> >>]

\* The options after normalization, as doRequest receives them.
Normalized(input) ==
    Delete(checkHeaders(checkUrl(Options(input)).options), "requestType")

\* A file written by hand: one entry, under the hash of the request of UrlA,
\* of no status code.
SeedFile ==
    << <<buildHash(JSONstringify(Normalized(Str(UrlA)))),
         [data |-> [name \in {"body", "headers"} |->
                       IF name = "body" THEN <<"object", <<"seed">>>>
                       ELSE <<"headers", JsonType>>],
          time |-> 1]>> >>

\* The callers of Spec: one per delivery mode, one of them with a socket
\* timeout.
Inputs ==
    { Str(UrlA),
      Obj(<< <<"url", Str(UrlA)>>, <<"requestType", Fn("function")>> >>),
      Obj(<< <<"url", Str(UrlA)>>, <<"requestType", Fn("Promise")>> >>),
      Obj(<< <<"url", Str(UrlA)>>, <<"requestType", Str(<<"promise">>)>> >>),
      Obj(<< <<"url", Str(UrlA)>>, <<"timeout", Num(5)>>,
             <<"requestType", Fn("function")>> >>) }

Servers == {Found, NotFound}
Codes == {"ENOTFOUND", "ECONNREFUSED"}
Times == {Num(1)}

-----------------------------------------------------------------------------
(* The specification of delivery: the calls of every mode, every event of  *)
(* the transport, and a cache that is filled by responses or from the file *)
(* written by hand. The clock stands still.                                *)

Init ==
    /\ cache = Empty
    /\ cacheTime = Num(0)
    /\ now = 0
    /\ heap = Empty
    /\ disk = [file \in {"seed.json"} |-> SeedFile]
    /\ modules = Empty
    /\ calls = <<>>
    /\ inserts = Empty

Next ==
    \/ \E input \in Inputs : Request(input, MaxCalls)
    \/ \E i \in 1..Len(calls), code \in Codes : RequestError(i, code)
    \/ \E i \in 1..Len(calls) : Timeout(i)
    \/ \E i \in 1..Len(calls), server \in Servers : Response(i, server)
    \/ \E i \in 1..Len(calls) : Data(i)
    \/ \E i \in 1..Len(calls) : End(i)
    \/ \E i \in 1..Len(calls), endFollows \in BOOLEAN : ResponseReset(i, endFollows)
    \/ \E i \in 1..Len(calls), endFollows \in BOOLEAN : ResponseClose(i, endFollows)
    \/ \E i \in 1..Len(calls) : EndAborted(i)
    \/ \E time \in Times : setCacheTime(time)
    \/ loadCache("seed.json")

Spec == Init /\ [][Next]_vars

-----------------------------------------------------------------------------
(* What the claims speak of.                                               *)

\* The call passed normalization: doRequest ran.
Passed(c) == c.mode # "none"

\* The runs of the continuations of doRequest, in order.
Continuations(c) == SelectSeq(c.log, LAMBDA e : e.cont \in {"ok", "error"})

\* What the caller observed: the calls of its callback, the events emitted
\* once it held the emitter, the settlement of its promise.
Observed(c) == SelectSeq(c.log, LAMBDA e : e.heard)

\* The request is over: it was answered from the cache, or the transport has
\* nothing more to emit for it.
Over(c) ==
    \/ c.net \in {"ended", "closed"}
    \/ Passed(c) /\ c.net = "none"

\* The status code of a response is one of the codes called Ok.
StatusIsOk(response) ==
    /\ Field(response, "statusCode")[1] = "number"
    /\ \/ Field(response, "statusCode")[2] \in 200..299
       \/ Field(response, "statusCode")[2] = 304

\* The requestType of an input, and whether it is a promise-capable
\* constructor.
RequestType(input) ==
    IF input[1] = "object" THEN Get(input[2], "requestType") ELSE Undefined

PromiseCapable(type) ==
    type[1] = "function" /\ Prototype(type[2]).then /\ Prototype(type[2]).catch

-----------------------------------------------------------------------------
(* Claims on delivery, under Spec.                                         *)

\* C1: for every call of doRequest and every behaviour of the transport,
\* exactly one of the two continuations runs, exactly once (never both, never
\* the same one twice, and one of them once the request is over), and the ok
\* continuation runs only on the whole body of the response.
C1_ExactlyOneContinuation ==
    \A i \in 1..Len(calls) :
        Passed(calls[i]) =>
            /\ Len(Continuations(calls[i])) <= 1
            /\ Over(calls[i]) => Len(Continuations(calls[i])) = 1
            /\ \A k \in 1..Len(calls[i].log) :
                  calls[i].log[k].cont = "ok" => calls[i].log[k].whole

\* C2: in event mode the emitter is returned before any outcome event is
\* emitted on it, and a listener attached when the call returns observes
\* exactly one outcome event. Stated of the calls whose transport did not
\* fail, a hit of the cache included.
C2_EmitterReturnedBeforeEvent ==
    \A i \in 1..Len(calls) :
        (calls[i].mode = "events" /\ calls[i].failure = "") =>
            /\ \A k \in 1..Len(calls[i].log) : calls[i].log[k].heard
            /\ Len(Observed(calls[i])) <= 1
            /\ Over(calls[i]) => Len(Observed(calls[i])) = 1

\* C3: requestType "promise" or a promise-capable constructor selects promise
\* mode and a promise is returned; any other function selects callback mode
\* and nothing is returned; anything else selects event mode and an emitter
\* is returned.
C3_ModeSelection ==
    \A i \in 1..Len(calls) :
        (Passed(calls[i]) /\ calls[i].returned) =>
            LET type == RequestType(calls[i].input)
            IN  IF type = Str(<<"promise">>) \/ PromiseCapable(type)
                THEN calls[i].mode = "promise" /\ calls[i].result = "promise"
                ELSE IF type[1] = "function"
                THEN calls[i].mode = "callback" /\ calls[i].result = "undefined"
                ELSE calls[i].mode = "events" /\ calls[i].result = "emitter"

\* C4: in promise mode the promise is settled exactly once; it resolves with
\* the response for every completed response whatever its status code, and
\* rejects if and only if a transport error occurred, with that error.
C4_PromiseSettlement ==
    \A i \in 1..Len(calls) :
        calls[i].mode = "promise" =>
            /\ Len(Observed(calls[i])) <= 1
            /\ Over(calls[i]) => Len(Observed(calls[i])) = 1
            /\ \A k \in 1..Len(Observed(calls[i])) :
                  LET e == Observed(calls[i])[k]
                  IN  /\ e.kind = "resolve" =>
                            e.cont = "ok" /\ e.whole /\ calls[i].failure = ""
                      /\ e.kind = "reject" =>
                            e.cont = "error" /\ e.payload = <<"error", calls[i].failure>>
            /\ (Over(calls[i]) /\ calls[i].failure # "") =>
                  \E k \in 1..Len(Observed(calls[i])) :
                        Observed(calls[i])[k].kind = "reject"

\* C5: in callback mode the function is called exactly once per call, with
\* "request-error" iff the payload is a transport error, "request-ok" iff it
\* is a response classified Ok, "request-fail" iff it is a response
\* classified Fail, and with no other label.
C5_CallbackOnce ==
    \A i \in 1..Len(calls) :
        calls[i].mode = "callback" =>
            /\ Len(calls[i].log) <= 1
            /\ Over(calls[i]) => Len(calls[i].log) = 1
            /\ \A k \in 1..Len(calls[i].log) :
                  LET e == calls[i].log[k]
                  IN  /\ e.kind \in {"request-error", "request-fail", "request-ok"}
                      /\ e.kind = "request-error" <=> e.payload[1] = "error"
                      /\ e.kind = "request-ok" <=>
                            (e.payload[1] = "message" /\ StatusIsOk(e.payload))

\* C8: every transport failure of an issued request runs the error
\* continuation with the raw error, is delivered as "request-error" (a
\* rejection in promise mode) and never as a response, and opens no second
\* network request.
C8_TransportFailureIsError ==
    \A i \in 1..Len(calls) :
        calls[i].failure # "" =>
            /\ calls[i].opened = 1
            /\ \A k \in 1..Len(calls[i].log) :
                  /\ calls[i].log[k].cont = "error"
                  /\ calls[i].log[k].kind \in {"request-error", "reject"}
            /\ Over(calls[i]) =>
                  \E k \in 1..Len(calls[i].log) :
                        calls[i].log[k].payload = <<"error", calls[i].failure>>

-----------------------------------------------------------------------------
(* The specification of classification: one caller per mode that labels    *)
(* its outcome, and a server for every status code around the bounds of    *)
(* the codes called Ok.                                                    *)

MaxStatusCalls == 1

StatusInputs ==
    { Str(UrlA),
      Obj(<< <<"url", Str(UrlA)>>, <<"requestType", Fn("function")>> >>) }

StatusCodes == {199, 200, 204, 299, 300, 304, 305, 404}

StatusServers ==
    {[statusCode |-> code, contentType |-> HtmlType, body |-> << <<"<p>">> >>] :
        code \in StatusCodes}

NextStatus ==
    \/ \E input \in StatusInputs : Request(input, MaxStatusCalls)
    \/ \E i \in 1..Len(calls) : RequestError(i, "ECONNREFUSED")
    \/ \E i \in 1..Len(calls), server \in StatusServers : Response(i, server)
    \/ \E i \in 1..Len(calls) : Data(i)
    \/ \E i \in 1..Len(calls) : End(i)
    \/ \E i \in 1..Len(calls), endFollows \in BOOLEAN : ResponseReset(i, endFollows)
    \/ \E i \in 1..Len(calls), endFollows \in BOOLEAN : ResponseClose(i, endFollows)
    \/ \E i \in 1..Len(calls) : EndAborted(i)
    \/ \E time \in Times : setCacheTime(time)
    \/ loadCache("seed.json")

SpecStatus == Init /\ [][NextStatus]_vars

\* The responses handed to a callback or emitted, with their labels.
Labelled ==
    {e \in UNION {Range(calls[i].log) : i \in 1..Len(calls)} :
        e.cont = "ok" /\ e.kind \in {"request-ok", "request-fail"}}

\* C6: a response is classified Ok iff its status code c satisfies
\* 200 <= c < 300 or c = 304, and Fail for every other value, a zero or
\* absent status code and an absent response included; the result depends on
\* nothing but the status code.
C6_ClassifiedByStatusCode ==
    /\ \A i \in 1..Len(calls) : \A k \in 1..Len(calls[i].log) :
          (calls[i].log[k].cont = "ok" /\ calls[i].mode # "promise") =>
             /\ calls[i].log[k].kind = "request-ok" <=> StatusIsOk(calls[i].log[k].payload)
             /\ calls[i].log[k].kind = "request-fail" <=> ~StatusIsOk(calls[i].log[k].payload)
    /\ \A e1 \in Labelled : \A e2 \in Labelled :
          Field(e1.payload, "statusCode") = Field(e2.payload, "statusCode") =>
             e1.kind = e2.kind
    /\ ~isOk(Undefined)
    /\ ~isOk(Msg([name \in {"statusCode"} |-> Num(0)]))
    /\ ~isOk(HttpMessage)

\* C6 witness: a response of status 304 was labelled "request-ok", and a
\* response of no status code, served from the cache, "request-fail".
C6_Witness ==
    \E i \in 1..Len(calls) : \E k \in 1..Len(calls[i].log) :
        LET e == calls[i].log[k]
        IN  /\ e.cont = "ok"
            /\ \/ Field(e.payload, "statusCode") = Num(304) /\ e.kind = "request-ok"
               \/ Field(e.payload, "statusCode") = Undefined /\ e.kind = "request-fail"

-----------------------------------------------------------------------------
(* The specification of normalization: callers with no options, with a URL *)
(* that has or lacks a host, with host or hostname or both.                *)

MaxOptionsCalls == 1

OptionsInputs ==
    { Undefined,
      Null,
      Str(<<>>),
      Str(UrlA),
      Str(UrlRelative),
      Obj(<<>>),
      Obj(<< <<"requestType", Fn("Promise")>> >>),
      Obj(<< <<"hostname", Str(<<"a">>)>> >>),
      Obj(<< <<"host", Str(<<"h">>)>>, <<"requestType", Fn("function")>> >>),
      Obj(<< <<"host", Str(<<"h">>)>>, <<"hostname", Str(<<"a">>)>> >>),
      Obj(<< <<"host", Str(<<>>)>>, <<"path", Str(<<"/p">>)>> >>),
      Obj(<< <<"url", Str(UrlRelative)>>, <<"hostname", Str(<<"a">>)>> >>),
      Obj(<< <<"url", Str(UrlB)>>, <<"host", Str(<<"h">>)>>,
             <<"requestType", Fn("Promise")>> >>) }

NextOptions ==
    \/ \E input \in OptionsInputs : Request(input, MaxOptionsCalls)
    \/ \E i \in 1..Len(calls) : RequestError(i, "ENOTFOUND")
    \/ \E i \in 1..Len(calls) : Response(i, NotFound)
    \/ \E i \in 1..Len(calls) : Data(i)
    \/ \E i \in 1..Len(calls) : End(i)
    \/ \E i \in 1..Len(calls), endFollows \in BOOLEAN : ResponseReset(i, endFollows)
    \/ \E i \in 1..Len(calls), endFollows \in BOOLEAN : ResponseClose(i, endFollows)
    \/ \E i \in 1..Len(calls) : EndAborted(i)
    \/ \E time \in Times : setCacheTime(time)
    \/ loadCache("seed.json")

SpecOptions == Init /\ [][NextOptions]_vars

\* The hostname of an input after URL resolution and host aliasing: that of
\* the URL if the input has one, else its own, and the host in its place
\* when it has none.
ResolvedHostname(input) ==
    LET given == Options(input)
        byUrl == TypeOf(Get(given, "url")) = "string"
        hostname == IF byUrl THEN Get(urlParse(Get(given, "url")[2]), "hostname")
                    ELSE Get(given, "hostname")
        host == IF byUrl THEN Get(urlParse(Get(given, "url")[2]), "host")
                ELSE Get(given, "host")
    IN  IF Truthy(hostname) THEN hostname ELSE host

-----------------------------------------------------------------------------
(* The specification of the cache: callers of one URL in callback mode,    *)
(* with the default TTL, with a TTL of their own and with none; a clock    *)
(* that advances past the expiry of the entries; callers that change the   *)
(* responses they were handed.                                             *)

CacheInputs ==
    { Obj(<< <<"url", Str(UrlA)>>, <<"requestType", Fn("function")>> >>),
      Obj(<< <<"url", Str(UrlA)>>, <<"cacheTime", Num(1)>>,
             <<"requestType", Fn("function")>> >>),
      Obj(<< <<"url", Str(UrlA)>>, <<"cacheTime", Num(0)>>,
             <<"requestType", Fn("function")>> >>) }

Whole == [statusCode |-> 200, contentType |-> JsonType, body |-> << <<"{", "a:1", "}">> >>]

NextCache ==
    \/ \E input \in CacheInputs : Request(input, MaxCacheCalls)
    \/ \E i \in 1..Len(calls) : RequestError(i, "ECONNREFUSED")
    \/ \E i \in 1..Len(calls) : Response(i, Whole)
    \/ \E i \in 1..Len(calls) : Data(i)
    \/ \E i \in 1..Len(calls) : End(i)
    \/ \E i \in 1..Len(calls), field \in {"body", "headers"} : CallerMutates(i, field)
    \/ Tick(MaxTime)
    \/ \E time \in Times : setCacheTime(time)
    \/ loadCache("seed.json")

SpecCache == Init /\ [][NextCache]_vars

\* The effective TTL of a call made now with these normalized options.
EffectiveTTL(options) ==
    IF Has(options, "cacheTime") THEN Get(options, "cacheTime") ELSE cacheTime

\* The Cache Store holds now an unexpired entry under this hash.
Unexpired(hash) == hash \in DOMAIN cache /\ cache[hash].time >= now

\* C9: a call with a nonzero effective TTL that finds an unexpired entry
\* under the hash of its normalized options opens no network request and its
\* success continuation is run with the twelve fields of the entry; any other
\* call opens exactly one network request, and no call ever opens another.
C9_CacheHitOpensNoRequest ==
    /\ [][Len(calls') = Len(calls) + 1 /\ Passed(calls'[Len(calls')]) =>
            LET c == calls'[Len(calls')]
                hash == buildHash(JSONstringify(c.options))
            IN  IF Truthy(EffectiveTTL(c.options)) /\ Unexpired(hash)
                THEN /\ c.opened = 0
                     /\ c.net = "none"
                     /\ Len(c.log) = 1
                     /\ c.log[1].cont = "ok"
                     /\ \A name \in Range(properties) :
                           Field(c.log[1].payload, name) =
                              IF name \in DOMAIN cache[hash].data
                              THEN cache[hash].data[name] ELSE Undefined
                ELSE /\ c.opened = 1
                     /\ c.net = "open"
                     /\ c.log = <<>>]_vars
    /\ [][\A i \in 1..Len(calls) : calls'[i].opened = calls[i].opened]_vars

\* C9 witness: after the clock had advanced, a call with a TTL found an
\* unexpired entry and was served from the cache with no network request.
C9_Witness ==
    \E i \in 1..Len(calls) :
        /\ Truthy(calls[i].ttl) /\ calls[i].opened = 0
        /\ Len(calls[i].log) = 1 /\ calls[i].log[1].cont = "ok"
        /\ calls[i].lookup.at > 0
        /\ calls[i].lookup.time >= calls[i].lookup.at

-----------------------------------------------------------------------------
(* The specification of the shared cache: as that of the cache, with a     *)
(* second call, so that a response inserted by one call is looked up by    *)
(* the next after the caller of the first has changed it.                  *)

NextShared ==
    \/ \E input \in CacheInputs : Request(input, MaxSharedCalls)
    \/ \E i \in 1..Len(calls) : RequestError(i, "ECONNREFUSED")
    \/ \E i \in 1..Len(calls) : Response(i, Whole)
    \/ \E i \in 1..Len(calls) : Data(i)
    \/ \E i \in 1..Len(calls) : End(i)
    \/ \E i \in 1..Len(calls), field \in {"body", "headers"} : CallerMutates(i, field)
    \/ Tick(MaxTime)
    \/ \E time \in Times : setCacheTime(time)
    \/ loadCache("seed.json")

SpecShared == Init /\ [][NextShared]_vars

\* C10: a lookup within t of the insert of its hash, with no insert or load
\* under the hash in between, finds a response whose twelve fields have the
\* contents they had when inserted; a lookup later than that finds nothing;
\* no lookup finds an entry that expires before the time of the lookup.
C10_RoundTrip ==
    \A i \in 1..Len(calls) :
        LET looked == calls[i].lookup
            inserted == looked.inserted
        IN  looked.done =>
               /\ Truthy(looked.response) => looked.time >= looked.at
               /\ inserted.known /\ looked.at <= inserted.at + inserted.ttl =>
                     Truthy(looked.response) /\ looked.found = inserted.data
               /\ inserted.known /\ looked.at > inserted.at + inserted.ttl =>
                     ~Truthy(looked.response)

-----------------------------------------------------------------------------
(* Further claims on the cache, under SpecCache.                           *)

\* C11: the effective TTL of a call is options.cacheTime when the options
\* have the field, a 0 included, and the default otherwise; a call whose
\* effective TTL is 0 does no lookup, and no step of it, its response
\* included, changes the cache; a call with a TTL does look up.
C11_EffectiveTTL ==
    /\ [][Len(calls') = Len(calls) + 1 /\ Passed(calls'[Len(calls')]) =>
            LET c == calls'[Len(calls')]
            IN  /\ c.ttl = (IF Has(Options(c.input), "cacheTime")
                            THEN Get(Options(c.input), "cacheTime") ELSE cacheTime)
                /\ c.ttl = Num(0) => ~c.lookup.done /\ cache' = cache /\ c.opened = 1
                /\ c.ttl # Num(0) => c.lookup.done]_vars
    /\ [][\A i \in 1..Len(calls) :
            (calls'[i] # calls[i] /\ calls[i].ttl = Num(0)) =>
                cache' = cache /\ calls'[i].ttl = Num(0)]_vars

\* C11 witness: while the default TTL was 1 and the cache held an entry, a
\* call with cacheTime 0 received its whole response from the network.
C11_Witness ==
    \E i \in 1..Len(calls) :
        /\ Has(calls[i].options, "cacheTime")
        /\ calls[i].ttl = Num(0)
        /\ cacheTime = Num(1)
        /\ calls[i].net = "ended"
        /\ DOMAIN cache # {}

-----------------------------------------------------------------------------
(* The specification of decoding: one caller per mode, servers that        *)
(* declare JSON and send what parses or does not, servers that declare     *)
(* something else or nothing, with the cache on or off.                    *)

VendorType == Str(<<"application", "/", "vnd.api", "+", "json">>)
JsonpType == Str(<<"application", "/", "jsonp">>)

BodyServers ==
    { Found,
      NotFound,
      [statusCode |-> 200, contentType |-> JsonType, body |-> << <<"not json">> >>],
      [statusCode |-> 404, contentType |-> JsonType, body |-> << <<"{", "a:1">> >>],
      [statusCode |-> 304, contentType |-> VendorType, body |-> <<>>],
      [statusCode |-> 200, contentType |-> JsonpType, body |-> << <<"{", "a:1", "}">> >>],
      [statusCode |-> 200, contentType |-> Undefined, body |-> << <<"not json">> >>] }

BodyInputs ==
    { Str(UrlA),
      Obj(<< <<"url", Str(UrlA)>>, <<"requestType", Fn("function")>> >>),
      Obj(<< <<"url", Str(UrlA)>>, <<"requestType", Fn("Promise")>> >>) }

NextBody ==
    \/ \E input \in BodyInputs : Request(input, MaxBodyCalls)
    \/ \E i \in 1..Len(calls) : RequestError(i, "ECONNREFUSED")
    \/ \E i \in 1..Len(calls), server \in BodyServers : Response(i, server)
    \/ \E i \in 1..Len(calls) : Data(i)
    \/ \E i \in 1..Len(calls) : End(i)
    \/ \E time \in Times : setCacheTime(time)

SpecBody == Init /\ [][NextBody]_vars

\* A Content-Type of the JSON family: "json" after "+" or "/", at the end or
\* before ";".
JsonFamily(type) ==
    /\ type[1] = "string"
    /\ \E n \in 2..Len(type[2]) :
          /\ type[2][n] = "json"
          /\ type[2][n - 1] \in {"+", "/"}
          /\ n < Len(type[2]) => type[2][n + 1] = ";"

\* The body a delivered response carries.
BodyOf(response) == Deref(heap, Field(response, "body"))

\* C12: a completed response of the JSON family whose body does not parse is
\* delivered once, through the ok continuation, with an empty object for
\* body; it never runs the error continuation nor yields "request-error",
\* and it is labelled by its status code alone.
C12_ParseFailureIsEmptyObject ==
    \A i \in 1..Len(calls) :
        LET c == calls[i]
        IN  (/\ c.net = "ended"
             /\ JsonFamily(c.server.contentType)
             /\ JSONparse(Concat(c.server.body)).threw) =>
                /\ Len(c.log) = 1
                /\ c.log[1].cont = "ok"
                /\ c.log[1].kind \notin {"request-error", "reject"}
                /\ BodyOf(c.log[1].payload) = <<"object", <<>>>>
                /\ c.mode \in {"callback", "events"} =>
                      c.log[1].kind = (IF \/ c.server.statusCode \in 200..299
                                          \/ c.server.statusCode = 304
                                       THEN "request-ok" ELSE "request-fail")
                /\ c.mode = "promise" => c.log[1].kind = "resolve"

\* C12 witness: a 404 that declared JSON and sent an unterminated object was
\* delivered as "request-fail" with an empty object for body.
C12_Witness ==
    \E i \in 1..Len(calls) :
        /\ calls[i].net = "ended"
        /\ calls[i].server.statusCode = 404
        /\ calls[i].server.contentType = JsonType
        /\ calls[i].log # <<>>
        /\ calls[i].log[1].kind = "request-fail"
        /\ BodyOf(calls[i].log[1].payload) = <<"object", <<>>>>

-----------------------------------------------------------------------------
(* The specification of the files: a caller whose responses are cached, a  *)
(* server of JSON and one of HTML, a clock, and a cache that is written to *)
(* a file and loaded from it, from the file written by hand and from a     *)
(* path where there is no file.                                            *)

FileInputs ==
    { Obj(<< <<"url", Str(UrlA)>>, <<"cacheTime", Num(1)>>,
             <<"requestType", Fn("function")>> >>) }

Files == {"seed.json", "dump.json", "none.json"}

NextFiles ==
    \/ \E input \in FileInputs : Request(input, MaxFileCalls)
    \/ \E i \in 1..Len(calls), server \in {Whole, NotFound} : Response(i, server)
    \/ \E i \in 1..Len(calls) : Data(i)
    \/ \E i \in 1..Len(calls) : End(i)
    \/ Tick(MaxTime)
    \/ writeCache("dump.json")
    \/ \E file \in Files : loadCache(file)

SpecFiles == Init /\ [][NextFiles]_vars

\* A field of the data of an entry, undefined if the entry lacks it.
DataField(data, name) == IF name \in DOMAIN data THEN data[name] ELSE Undefined

\* C13: when a file holds the dump of the store as it is, loading the file
\* into an empty store gives a store of the same keys, with the same
\* expiresAt and the same contents in each of the twelve fields.
C13_DumpLoadRoundTrip ==
    \A file \in DOMAIN disk :
        disk[file] = Stringify(cache, heap) =>
            LET store == AssignEntries(Empty, disk[file], file, 1)
                objects == AssignObjects(Empty, disk[file], file, 1)
            IN  /\ DOMAIN store = DOMAIN cache
                /\ \A key \in DOMAIN cache :
                      /\ store[key].time = cache[key].time
                      /\ \A name \in Range(properties) :
                            Deref(objects, DataField(store[key].data, name)) =
                               Deref(heap, DataField(cache[key].data, name))

\* C19: a load of a path where a file exists leaves in the store every
\* entry of the file, as the file has it, keeps every entry under a key the
\* file does not have, and purges nothing; a load of a path where no file
\* exists changes nothing.
C19_LoadMergesFile ==
    [][\A file \in Files :
          loadCache(file) =>
             IF file \in DOMAIN disk
             THEN /\ \A n \in 1..Len(disk[file]) :
                        LET key == disk[file][n][1]
                            entry == disk[file][n][2]
                        IN  /\ key \in DOMAIN cache'
                            /\ cache'[key].time = entry.time
                            /\ \A name \in DOMAIN entry.data :
                                  Deref(heap', cache'[key].data[name]) = entry.data[name]
                  /\ \A key \in DOMAIN cache :
                        (\A n \in 1..Len(disk[file]) : disk[file][n][1] # key) =>
                            key \in DOMAIN cache' /\ cache'[key] = cache[key]
             ELSE cache' = cache]_vars

-----------------------------------------------------------------------------
(* The specification of the headers: callers that send a body (an object,  *)
(* markup, text) or none, with no headers field, with an empty one, with a *)
(* Content-Type or an Accept of their own.                                 *)

ObjectBody == Obj(<< <<"a", Num(1)>> >>)
XmlType == Str(<<"application/xml", ";", " charset=latin1">>)

HeaderInputs ==
    { Obj(<< <<"url", Str(UrlA)>>, <<"headers", Obj(<<>>)>>, <<"body", ObjectBody>>,
             <<"requestType", Fn("function")>> >>),
      Obj(<< <<"url", Str(UrlA)>>, <<"headers", Obj(<<>>)>>, <<"body", ObjectBody>>,
             <<"requestType", Fn("Promise")>> >>),
      Obj(<< <<"url", Str(UrlA)>>, <<"body", ObjectBody>>,
             <<"requestType", Fn("function")>> >>),
      Obj(<< <<"url", Str(UrlA)>>, <<"body", Str(<<"text">>)>> >>),
      Obj(<< <<"url", Str(UrlA)>>, <<"headers", Obj(<<>>)>>, <<"body", Str(<<"<", "p>">>)>>,
             <<"requestType", Fn("function")>> >>),
      Obj(<< <<"url", Str(UrlA)>>, <<"headers", Obj(<<>>)>>, <<"body", Str(<<"text">>)>>,
             <<"requestType", Fn("function")>> >>),
      Obj(<< <<"url", Str(UrlA)>>, <<"headers", Obj(<<>>)>>, <<"body", Str(<<>>)>> >>),
      Obj(<< <<"url", Str(UrlA)>>,
             <<"headers", Obj(<< <<"content-type", XmlType>> >>)>>,
             <<"body", Str(<<"<", "p>">>)>>, <<"requestType", Fn("function")>> >>),
      Obj(<< <<"url", Str(UrlA)>>,
             <<"headers", Obj(<< <<"accept", Str(<<"*/*">>)>> >>)>>,
             <<"body", Str(<<"text">>)>>, <<"requestType", Fn("Promise")>> >>),
      Obj(<< <<"url", Str(UrlA)>>, <<"headers", Obj(<<>>)>>,
             <<"requestType", Fn("function")>> >>) }

NextHeaders ==
    \/ \E input \in HeaderInputs : Request(input, MaxHeaderCalls)
    \/ \E i \in 1..Len(calls) : RequestError(i, "ECONNREFUSED")
    \/ \E i \in 1..Len(calls), server \in Servers : Response(i, server)
    \/ \E i \in 1..Len(calls) : Data(i)
    \/ \E i \in 1..Len(calls) : End(i)
    \/ \E time \in Times : setCacheTime(time)

SpecHeaders == Init /\ [][NextHeaders]_vars

\* The header a caller set in its options, under its normalized name.
Given(input, name) ==
    IF Has(Options(input), "headers")
    THEN Get(jfHttpHeaders(Get(Options(input), "headers")), name)
    ELSE Undefined

\* The header of the options the request is made with.
Sent(c, name) ==
    IF Has(c.options, "headers") THEN Get(Get(c.options, "headers")[2], name)
    ELSE Undefined

\* C14: a request with an object for body and no Content-Type nor Accept set
\* is sent, with Content-Type "application/json; charset=utf-8" and Accept
\* "application/json"; whenever a body is present and Content-Type is not
\* set it is inferred from the kind of the body, and an Accept that is not
\* set becomes the media type of the Content-Type.
C14_HeaderInference ==
    \A i \in 1..Len(calls) :
        LET c == calls[i]
            body == Get(Options(c.input), "body")
        IN  (Passed(c) /\ Has(Options(c.input), "body")) =>
               /\ (/\ body[1] = "object"
                   /\ ~Truthy(Given(c.input, "Content-Type"))
                   /\ ~Truthy(Given(c.input, "Accept"))) =>
                      /\ c.sent
                      /\ Sent(c, "Content-Type") = ApplicationJson
                      /\ Sent(c, "Accept") = Str(<<"application/json">>)
               /\ ~Truthy(Given(c.input, "Content-Type")) =>
                      Sent(c, "Content-Type") =
                         (CASE body[1] = "object" -> ApplicationJson
                            [] body[1] = "string" /\ body[2] # <<>> /\ body[2][1] = "<" ->
                                  TextHtml
                            [] OTHER -> TextPlain)
               /\ ~Truthy(Given(c.input, "Accept")) =>
                      /\ Sent(c, "Content-Type")[1] = "string"
                      /\ Sent(c, "Accept") =
                            Str(BeforeSemicolon(Sent(c, "Content-Type")[2]))

-----------------------------------------------------------------------------
(* The specification of the lifetime of entries: two callers of one URL,   *)
(* one with the default TTL and one with a TTL of 1, that may overlap; a   *)
(* default that is set to 0 and to 2 at any moment; a clock.               *)

LifetimeInputs ==
    { Obj(<< <<"url", Str(UrlA)>>, <<"requestType", Fn("function")>> >>),
      Obj(<< <<"url", Str(UrlA)>>, <<"cacheTime", Num(1)>>,
             <<"requestType", Fn("function")>> >>) }

DefaultTimes == {Num(0), Num(2)}

NextLifetime ==
    \/ \E input \in LifetimeInputs : Request(input, MaxLifetimeCalls)
    \/ \E i \in 1..Len(calls) : RequestError(i, "ECONNREFUSED")
    \/ \E i \in 1..Len(calls) : Response(i, Whole)
    \/ \E i \in 1..Len(calls) : Data(i)
    \/ \E i \in 1..Len(calls) : End(i)
    \/ Tick(MaxTime)
    \/ \E time \in DefaultTimes : setCacheTime(time)

SpecLifetime == Init /\ [][NextLifetime]_vars

\* The step is the call of jfHttpRequest that adds a call that passed the
\* checks; the step is the 'end' of the response of call i.
Issues == Len(calls') = Len(calls) + 1 /\ Passed(calls'[Len(calls')])

Completes(i) == calls[i].net = "streaming" /\ calls'[i].net = "ended"

\* The TTL a caller asks for, given the default.
Asked(input, default) ==
    IF Has(Options(input), "cacheTime") THEN Get(Options(input), "cacheTime")
    ELSE default

C16_InsertedBeforeDelivery ==
    /\ [][Issues => calls'[Len(calls')].ttl = Asked(calls'[Len(calls')].input, cacheTime)]_vars
    /\ [][\A i \in 1..Len(calls) :
            (Completes(i) /\ Truthy(calls[i].hash)) =>
                /\ calls[i].hash = buildHash(JSONstringify(calls[i].options))
                /\ calls[i].hash \in DOMAIN cache'
                /\ cache'[calls[i].hash].time = now + calls[i].ttl[2]
                /\ calls'[i].log # <<>>
                /\ calls'[i].log[Len(calls'[i].log)].cont = "ok"
                /\ \A name \in Range(properties) :
                      cache'[calls[i].hash].data[name] =
                         Field(calls'[i].log[Len(calls'[i].log)].payload, name)
                /\ calls'[i].hit]_vars

\* C16 witness: a response that ended after the clock had advanced was
\* cached until that time plus the TTL of its call, and its callback could
\* already find it.
C16_Witness ==
    \E i \in 1..Len(calls) :
        /\ calls[i].net = "ended"
        /\ calls[i].hit
        /\ calls[i].hash \in DOMAIN cache
        /\ cache[calls[i].hash].time > calls[i].ttl[2]

\* C17: a step that changes the default TTL changes nothing else; the TTL
\* and the hash of a call never change once it is issued, and its response
\* is cached, or not, by them, whatever the default has become; a call with
\* a cacheTime of its own gets it, whatever the default.
C17_DefaultOnlyForLaterCalls ==
    /\ [][cacheTime' # cacheTime =>
             UNCHANGED <<cache, now, heap, disk, modules, calls, inserts>>]_vars
    /\ [][\A i \in 1..Len(calls) :
             /\ calls'[i].ttl = calls[i].ttl
             /\ calls'[i].hash = calls[i].hash
             /\ Completes(i) =>
                   IF Truthy(calls[i].ttl)
                   THEN /\ calls[i].hash \in DOMAIN cache'
                        /\ cache'[calls[i].hash].time = now + calls[i].ttl[2]
                   ELSE cache' = cache]_vars
    /\ [][(Issues /\ Has(Options(calls'[Len(calls')].input), "cacheTime")) =>
             /\ calls'[Len(calls')].ttl = Get(Options(calls'[Len(calls')].input), "cacheTime")
             /\ calls'[Len(calls')].hash =
                   buildHash(JSONstringify(Normalized(calls'[Len(calls')].input)))]_vars

\* C17 witness: the default was changed while a call that took it was in
\* flight, and the response of the call was cached with the TTL the call
\* was issued with.
C17_Witness ==
    \E i \in 1..Len(calls) :
        /\ ~Has(Options(calls[i].input), "cacheTime")
        /\ calls[i].net = "ended"
        /\ Truthy(calls[i].ttl)
        /\ calls[i].ttl # cacheTime
        /\ calls[i].hash \in DOMAIN cache
        /\ cache[calls[i].hash].time = inserts[calls[i].hash].at + calls[i].ttl[2]

\* C18: a purge of the store, at any moment, removes exactly the entries
\* that expire before now and leaves the others as they are, and a second
\* purge changes nothing more; every lookup leaves the store purged and
\* otherwise unchanged, and every insert leaves it purged but for the entry
\* inserted.
C18_PurgeExactAndIdempotent ==
    /\ [](LET purged == purgeCache(cache, now)
          IN  /\ DOMAIN purged = {key \in DOMAIN cache : cache[key].time >= now}
              /\ \A key \in DOMAIN purged : purged[key] = cache[key]
              /\ purgeCache(purged, now) = purged)
    /\ [][(Issues /\ calls'[Len(calls')].lookup.done) =>
             /\ DOMAIN cache' = {key \in DOMAIN cache : cache[key].time >= now}
             /\ \A key \in DOMAIN cache' : cache'[key] = cache[key]]_vars
    /\ [][\A i \in 1..Len(calls) :
            (Completes(i) /\ Truthy(calls[i].hash)) =>
                /\ DOMAIN cache' =
                      {key \in DOMAIN cache : cache[key].time >= now} \cup {calls[i].hash}
                /\ \A key \in DOMAIN cache' \ {calls[i].hash} : cache'[key] = cache[key]]_vars

\* C18 witness: an insert has purged the entry of another call, which had
\* expired before, and left its own in the store.
C18_Witness ==
    \E key \in DOMAIN inserts :
        /\ key \notin DOMAIN cache
        /\ inserts[key].at + inserts[key].ttl < now
        /\ \E other \in DOMAIN cache : other # key /\ cache[other].time >= now

-----------------------------------------------------------------------------
(* Claims on overlapping calls, under Spec.                                *)

\* Call i is in flight: its request is open and its response has not ended.
InFlight(i) == calls[i].net \in {"open", "streaming", "aborting"}

\* C20: overlapping calls are independent: each call that passed the checks
\* is delivered at most one outcome, and exactly one once it is over; a call
\* issued while another call of the same hash is in flight, the store
\* holding no entry under the hash, misses and opens a request of its own;
\* and the entry a response leaves under its hash is that response, so that
\* the entry left is that of the response that ended last.
C20_IndependentCalls ==
    /\ [](\A i \in 1..Len(calls) :
             Passed(calls[i]) =>
                /\ Len(calls[i].log) <= 1
                /\ Over(calls[i]) => Len(calls[i].log) = 1
                /\ calls[i].opened <= 1)
    /\ [][Issues =>
             \A i \in 1..Len(calls) :
                (/\ InFlight(i)
                 /\ Truthy(calls[i].hash)
                 /\ calls[i].hash = calls'[Len(calls')].hash
                 /\ calls[i].hash \notin DOMAIN cache) =>
                    /\ calls'[Len(calls')].opened = 1
                    /\ calls'[Len(calls')].log = <<>>
                    /\ calls'[i] = calls[i]]_vars
    /\ [][\A i \in 1..Len(calls) :
             (calls'[i].net = "ended" /\ calls[i].net # "ended" /\ Truthy(calls[i].hash)) =>
                /\ calls[i].hash \in DOMAIN cache'
                /\ \A name \in Range(properties) :
                      cache'[calls[i].hash].data[name] =
                         Field(calls'[i].log[Len(calls'[i].log)].payload, name)
                /\ \A j \in 1..Len(calls) : j # i => calls'[j] = calls[j]]_vars

-----------------------------------------------------------------------------
(* Claims on what is cached and how a cached response is delivered, under  *)
(* Spec.                                                                   *)

\* The continuation of call i runs in the step; it is the error one.
Runs(i) == Len(calls'[i].log) = Len(calls[i].log) + 1

Errs(i) == Runs(i) /\ calls'[i].log[Len(calls'[i].log)].cont = "error"

\* The call had a transport error.
Erred(c) == \E k \in 1..Len(c.log) : c.log[k].cont = "error"

\* C21: with a nonzero TTL the end of a response caches it under the hash of
\* its call whatever its status code; a call of the same hash issued within
\* the TTL of that entry opens no request, and its caller observes one
\* outcome, the cached response, classified as the status code of the
\* original is; the transport error of a call changes no entry, neither as
\* it is delivered nor later, and a call whose earlier calls of the same
\* options all ended in a transport error alone opens a request.
C21_ResponsesCachedErrorsNot ==
    /\ [][\A i \in 1..Len(calls) :
            (calls'[i].net = "ended" /\ calls[i].net # "ended" /\ Truthy(calls[i].ttl)) =>
                /\ calls[i].hash \in DOMAIN cache'
                /\ cache'[calls[i].hash].data["statusCode"] =
                      Num(calls[i].server.statusCode)]_vars
    /\ [][Issues =>
            LET c == calls'[Len(calls')]
                inserted == LastInsert(c.hash)
            IN  (/\ Truthy(c.ttl)
                 /\ inserted.known
                 /\ now <= inserted.at + inserted.ttl) =>
                    /\ c.opened = 0
                    /\ Len(Observed(c)) = 1
                    /\ Observed(c)[1].cont = "ok"
                    /\ Kind(Observed(c)[1].payload) = Kind(Msg(inserted.data))
                    /\ c.mode # "promise" =>
                          Observed(c)[1].kind = Kind(Msg(inserted.data))]_vars
    /\ [][\A i \in 1..Len(calls) :
            (Errs(i) \/ (Erred(calls[i]) /\ calls'[i] # calls[i])) =>
                cache' = cache]_vars
    /\ [][Issues =>
            LET c == calls'[Len(calls')]
                earlier == {i \in 1..Len(calls) : calls[i].options = c.options}
            IN  (/\ earlier # {}
                 /\ modules = Empty
                 /\ \A i \in earlier :
                       /\ calls[i].log # <<>>
                       /\ \A k \in 1..Len(calls[i].log) :
                             calls[i].log[k].cont = "error") =>
                    c.opened = 1]_vars

-----------------------------------------------------------------------------
(* Claims on the isolation of the entries, under SpecShared.               *)

\* What a lookup of hash made now would return, with the contents of the
\* objects it refers to.
Returned(hash) == Snapshot(heap, fromCache(cache, hash, now).response)

\* C22: whatever the callers do to the body and the headers of the responses
\* they were delivered, from the network or from the cache, a lookup of a
\* hash under which a response was inserted returns, while the entry lasts,
\* the fields of the response as they were received from the server.
C22_SnapshotIsolated ==
    \A hash \in DOMAIN inserts :
        (inserts[hash].known /\ Unexpired(hash)) =>
            Returned(hash) = inserts[hash].data

-----------------------------------------------------------------------------
(* The specification of the options records: callers of one URL in every   *)
(* delivery mode, with a TTL of 1, and callers that call again with the    *)
(* record they passed to an earlier call, as that call left it.            *)

MaxReuseCalls == 2

ReuseInputs ==
    { Str(UrlA),
      Obj(<< <<"url", Str(UrlA)>>, <<"cacheTime", Num(1)>> >>),
      Obj(<< <<"url", Str(UrlA)>>, <<"cacheTime", Num(1)>>,
             <<"requestType", Fn("function")>> >>),
      Obj(<< <<"url", Str(UrlA)>>, <<"cacheTime", Num(1)>>,
             <<"requestType", Fn("Promise")>> >>),
      Obj(<< <<"requestType", Str(<<"promise">>)>>, <<"url", Str(UrlA)>>,
             <<"cacheTime", Num(1)>> >>),
      Obj(<< <<"url", Str(UrlRelative)>>, <<"requestType", Fn("function")>> >>) }

\* The argument of a call as the call left it: checkUrl, checkHeaders and
\* the delete of requestType work on the record of the caller itself, and an
\* exception of checkUrl leaves it as it was when thrown. A string is no
\* record: the options made of it are the call's own.
Record(c) ==
    IF c.input[1] # "object" THEN c.input
    ELSE IF Passed(c) THEN Obj(c.options)
    ELSE Obj(checkUrl(Options(c.input)).options)

\* A caller calls again with the record it passed to call i.
Reuse(i, maxCalls) ==
    /\ calls[i].input[1] = "object"
    /\ Request(Record(calls[i]), maxCalls)

NextReuse ==
    \/ \E input \in ReuseInputs : Request(input, MaxReuseCalls)
    \/ \E i \in 1..Len(calls) : Reuse(i, MaxReuseCalls)
    \/ \E i \in 1..Len(calls) : RequestError(i, "ECONNREFUSED")
    \/ \E i \in 1..Len(calls) : Response(i, Whole)
    \/ \E i \in 1..Len(calls) : Data(i)
    \/ \E i \in 1..Len(calls) : End(i)

SpecReuse == Init /\ [][NextReuse]_vars

\* Two arguments that differ at most in their requestType.
SameButMode(a, b) ==
    Delete(Options(a), "requestType") = Delete(Options(b), "requestType")

\* C23: the options doRequest forwards to the transport have no requestType
\* and the hash of a call is that of these options, so that calls whose
\* arguments differ only in requestType have the same options, and one of
\* them issued while the entry of another lasts is served from that entry;
\* and a call made with the record of an earlier call that passed the checks
\* is dispatched in event mode, whatever the mode of the earlier call.
C23_RequestTypeConsumed ==
    /\ [](\A i \in 1..Len(calls) :
             Passed(calls[i]) =>
                /\ ~Has(calls[i].options, "requestType")
                /\ Truthy(calls[i].hash) =>
                      /\ calls[i].hash = buildHash(JSONstringify(calls[i].options))
                      /\ \A k \in 1..Len(calls[i].hash[2]) :
                            calls[i].hash[2][k][1] # "requestType"
                /\ \A j \in 1..Len(calls) :
                      (Passed(calls[j]) /\ SameButMode(calls[i].input, calls[j].input)) =>
                          calls[j].options = calls[i].options)
    /\ [][Issues =>
             LET c == calls'[Len(calls')]
             IN  \A i \in 1..Len(calls) :
                    (/\ Passed(calls[i])
                     /\ SameButMode(calls[i].input, c.input)
                     /\ Truthy(calls[i].hash)
                     /\ Unexpired(calls[i].hash)) =>
                        /\ c.hash = calls[i].hash
                        /\ c.opened = 0
                        /\ DOMAIN cache' = DOMAIN cache]_vars
    /\ [][Issues =>
             LET c == calls'[Len(calls')]
             IN  \A i \in 1..Len(calls) :
                    (/\ calls[i].input[1] = "object"
                     /\ Passed(calls[i])
                     /\ c.input = Record(calls[i])) =>
                        /\ c.mode = "events"
                        /\ c.returned => c.result = "emitter"
                        /\ c.options = calls[i].options]_vars

\* C23 witness: a call in callback or promise mode cached its response, and
\* the call made next with the same record was dispatched in event mode and
\* served from that entry.
C23_Witness ==
    \E i \in 1..Len(calls), j \in 1..Len(calls) :
        /\ i < j
        /\ calls[i].mode \in {"callback", "promise"}
        /\ calls[i].net = "ended"
        /\ calls[j].input = Record(calls[i])
        /\ calls[j].mode = "events"
        /\ calls[j].opened = 0
        /\ calls[j].hash = calls[i].hash

====
